---- MODULE Spec2Model ----
(***************************************************************************)
(* A model of alopekis, the DataCite data file exporter.                   *)
(*                                                                         *)
(*  - the export of one month (SpecExport): the paginated result stream    *)
(*    OpenSearchClient.return_all_results against a fixture backend, and   *)
(*    the record loop of month_worker that drives it and writes the files; *)
(*  - the run (Spec): the seeding loop of main.py, the worker pool, the    *)
(*    two queues and results_thread, the thread that reconciles counts;    *)
(*  - results_thread alone, fed arbitrary events (SpecReconciler);         *)
(*  - the worker pool alone, fed by the seeding loop (SpecPool);           *)
(*  - the run on the two month scenario of the specification, section 8    *)
(*    (SpecScenario);                                                      *)
(*  - the run without worker failure, fairly scheduled (SpecFair).         *)
(***************************************************************************)
EXTENDS Integers, Sequences, FiniteSets, TLC

VARIABLES
    \* ---- the export of one month (opensearch.py, worker.py) ----
    fixture,            \* the backend: [n, page, mode, states]
    expected_count,     \* job['count'] of the job being exported
    search_after,       \* the query's search_after: the resume cursor
    timeout_count,      \* return_all_results: timeout_count
    failure_count,      \* return_all_results: failure_count
    query_finished,     \* return_all_results: query_finished
    raised,             \* the exception that left return_all_results, or "none"
    hits,               \* response.hits not yet pulled by the worker's loop
    response,           \* response.hits of the page the generator yields from
    requests,           \* number of self.query.execute() calls
    sleeps,             \* number of time.sleep(10) calls
    yielded,            \* the uids pulled from the stream, in order
    results_count,      \* month_worker: results_count
    current_file_index, \* month_worker: current_file_index
    json_file_path,     \* month_worker: json_file_path
    files,              \* the bucket directory: path -> lines written
    csv_rows,           \* data rows of the tabular file (header excluded)
    wpc,                \* where the exporting worker is
    final_event,        \* the Final event the worker put, or NoEvent
    json_written,       \* history: the uids given to json_output_file.write, in order
    streams_opened,     \* history: the streams this worker has opened
    prior_retried,      \* history: an earlier stream of this worker had to retry
    \* ---- the run (main.py, utils.py, worker.py) ----
    TOTAL_THRESHOLD,    \* config.py:17: [int |-> n], or [str |-> s] from the environment
    MONTH_THRESHOLD,    \* config.py:18: the same
    today,              \* date.today(): [year, month]
    buckets,            \* buckets of the date histogram still to be seeded
    mpc,                \* where the main thread is
    mcount,             \* queue_month called by the main thread: count
    work_queue,         \* the Job Queue
    results_queue,      \* the Outcome channel
    workers,            \* per worker: where it is, and its job
    results,            \* results_thread: results
    rpc,                \* where results_thread is
    months_to_rerun,    \* results_thread: the months still to regenerate
    rcount,             \* queue_month called by results_thread: count
    sentinels_left,     \* results_thread: sentinels still to put
    \* ---- history, for the claims ----
    jobs_put,           \* number of jobs ever put on the Job Queue
    sentinels_put,      \* number of sentinels ever put on the Job Queue
    takes,              \* per job id: the workers that dequeued it, in order
    finals_put,         \* per job id: the Final events put for it
    regenerated,        \* the keys regenerated, in order
    last_round,         \* the last completeness check that decided
    enqueued            \* per bucket: the Jobs and the Expected events ever put

exportVars == <<fixture, expected_count, search_after, timeout_count, failure_count,
                query_finished, raised, hits, response, requests, sleeps, yielded,
                results_count, current_file_index, json_file_path, files, csv_rows, wpc,
                final_event, json_written, streams_opened, prior_retried>>

sysVars == <<TOTAL_THRESHOLD, MONTH_THRESHOLD, today, buckets, mpc, mcount, work_queue,
             results_queue, workers, results, rpc, months_to_rerun, rcount, sentinels_left,
             jobs_put, sentinels_put, takes, finals_put, regenerated, last_round,
             enqueued>>

vars == <<exportVars, sysVars>>

----------------------------------------------------------------------------
(* Bounds of the model *)

\* most records a fixture bucket holds
MaxRecords == 10
\* largest page the fixture backend returns (build_query asks for 1000)
MaxPage == 3
\* records per sequence file: the model's scale for the 10000 of worker.py:98
RotateEvery == 3
\* largest count the backend reports for a month, in units of CountStep
MaxCount == 1
\* most months in the date histogram
MaxBuckets == 2
\* worker_count: --workers, by default WORKERS (config.py:14)
WorkerCount == 2
\* most regenerations of a run
MaxRegen == 2
\* most bucket events fed to results_thread alone
MaxEvents == 4
\* most months of the histogram seeded before the worker pool alone
MaxJobs == 3
\* most jobs one worker exports in a row
MaxStreams == 2
\* sentinels put before the pool alone: two shutdown decisions of WorkerCount
MaxSentinels == 4

(* Program constants *)

\* opensearch.py:63 and :71: more than this many timeouts (failures) give up
MaxRetries == 10

\* config.py:17: the default of TOTAL_THRESHOLD
DefaultTotalThreshold == 1000
\* config.py:18: the default of MONTH_THRESHOLD
DefaultMonthThreshold == 400

\* Python's None where a count is expected (counts are never negative)
None == 0 - 1

NoCursor == << >>
NoEvent == [status |-> "none"]

Min(a, b) == IF a < b THEN a ELSE b

----------------------------------------------------------------------------
(* The fixture backend: n records in the sort order of build_query,        *)
(* s.sort("updated", "uid"). Two records share each timestamp, so that the *)
(* cursor needs both sort fields.                                          *)

Record(i) == [uid |-> i, updated |-> (i + 1) \div 2, aasm_state |-> fixture.states[i]]

\* hit.meta.sort
SortKey(r) == <<r.updated, r.uid>>

\* a mutant of After: the cursor's own record is returned again
AfterInclusive(k, c) == c = NoCursor \/ k[1] > c[1] \/ (k[1] = c[1] /\ k[2] >= c[2])

\* search_after is exclusive: the records strictly after the cursor
After(k, c) == c = NoCursor \/ k[1] > c[1] \/ (k[1] = c[1] /\ k[2] > c[2])

KeyLess(a, b) == a[1] < b[1] \/ (a[1] = b[1] /\ a[2] < b[2])

\* the page the backend returns for a cursor: the first `page` records after it
Page(c) ==
    LET S == {i \in 1..fixture.n : After(SortKey(Record(i)), c)}
        Nth(j) == CHOOSE i \in S :
                    Cardinality({x \in S : KeyLess(SortKey(Record(x)), SortKey(Record(i)))}) = j - 1
    IN  [j \in 1..Min(fixture.page, Cardinality(S)) |-> Record(Nth(j))]

\* what the backend may answer to the next request
Responses ==
    CASE fixture.mode = "happy"          -> {"ok"}
      [] fixture.mode = "always_timeout" -> {"timed_out"}
      [] fixture.mode = "always_raise"   -> {"exception"}
      [] OTHER                           -> {"ok", "timed_out", "exception"}

Modes == {"happy", "always_timeout", "always_raise", "flaky"}

RecordStates == {"findable", "registered"}

Fixtures ==
    { [n |-> n, page |-> p, mode |-> m, states |-> s] :
        n \in {0}, p \in 1..MaxPage, m \in Modes, s \in {<< >>} }
    \cup
    UNION { { [n |-> n, page |-> p, mode |-> m, states |-> s] :
                p \in 1..MaxPage, m \in Modes,
                s \in { [i \in 1..n |-> "findable"],
                        [i \in 1..n |-> IF i % 2 = 0 THEN "registered" ELSE "findable"],
                        [i \in 1..n |-> IF i % 3 = 1 THEN "registered" ELSE "findable"] } } :
            n \in 1..MaxRecords }

----------------------------------------------------------------------------
(* OpenSearchClient.return_all_results, a generator                        *)

\* the except branch of return_all_results: opensearch.py:69-77
\* (t is the timeout count when the exception was raised)
ExceptBranch(t) ==
    /\ failure_count' = failure_count + 1
    /\ timeout_count' = t
    /\ IF failure_count + 1 > MaxRetries
         THEN raised' = "TooManyFailures" /\ sleeps' = sleeps
         ELSE raised' = "none" /\ sleeps' = sleeps + 1
    /\ UNCHANGED <<search_after, query_finished, hits, response>>

\* the branch of a response that carries timed_out: opensearch.py:60-68.
\* `raise TooManyTimeouts` is inside the try block whose `except Exception`
\* follows, and TooManyTimeouts is an Exception: the except branch catches it.
TimedOutBranch ==
    IF timeout_count + 1 > MaxRetries
      THEN ExceptBranch(timeout_count + 1)
      ELSE /\ timeout_count' = timeout_count + 1
           /\ sleeps' = sleeps + 1
           /\ UNCHANGED <<failure_count, raised, search_after, query_finished, hits,
                          response>>

\* a mutant of NextCursor: resume after the first hit of the page
NextCursorFirst(page) == SortKey(page[1])

\* opensearch.py:57: search_after=response.hits[-1].meta.sort
NextCursor(page) == SortKey(page[Len(page)])

\* a mutant of OkBranch: a successful page resets the two counters
OkBranchResetting ==
    LET page == Page(search_after) IN
    /\ IF Len(page) > 0
         THEN /\ hits' = page
              /\ response' = page
              /\ UNCHANGED query_finished
         ELSE /\ query_finished' = TRUE
              /\ UNCHANGED <<hits, response>>
    /\ timeout_count' = 0
    /\ failure_count' = 0
    /\ UNCHANGED <<search_after, raised, sleeps>>

\* a mutant of OkBranch: a page shorter than the page size ends the stream
OkBranchShortPage ==
    LET page == Page(search_after) IN
    /\ IF Len(page) > 0
         THEN /\ hits' = page
              /\ response' = page
              /\ query_finished' = (Len(page) < fixture.page)
         ELSE /\ query_finished' = TRUE
              /\ UNCHANGED <<hits, response>>
    /\ UNCHANGED <<search_after, timeout_count, failure_count, raised, sleeps>>

\* a response that did not time out: opensearch.py:53-59, up to the point
\* where `yield from response.hits` hands the page's first hit to the worker
\* and suspends the generator (line 56); an empty page ends the stream
OkBranch ==
    LET page == Page(search_after) IN
    /\ IF Len(page) > 0
         THEN /\ hits' = page
              /\ response' = page
              /\ UNCHANGED query_finished
         ELSE /\ query_finished' = TRUE
              /\ UNCHANGED <<hits, response>>
    /\ UNCHANGED <<search_after, timeout_count, failure_count, raised, sleeps>>

\* opensearch.py:57: the worker's for loop asks for the record after the
\* page's last hit, the generator is resumed and moves the cursor:
\* self.query = self.query.extra(search_after=response.hits[-1].meta.sort)
QueryExtra ==
    /\ wpc = "loop"
    /\ hits = << >> /\ response # << >>
    /\ search_after' = NextCursor(response)
    /\ response' = << >>
    /\ UNCHANGED <<fixture, expected_count, timeout_count, failure_count, query_finished,
                   raised, hits, requests, sleeps, yielded, results_count,
                   current_file_index, json_file_path, files, csv_rows, wpc, final_event>>
    /\ UNCHANGED <<json_written, streams_opened, prior_retried>>
    /\ UNCHANGED sysVars

\* opensearch.py:43-77: one turn of the while loop, from the request to the
\* first hit yielded, to the sleep before the retry, or to the end of the
\* stream. The generator runs only when the worker's for loop asks for a
\* record.
return_all_results ==
    /\ wpc = "loop"
    /\ ~query_finished /\ raised = "none" /\ hits = << >> /\ response = << >>
    /\ requests' = requests + 1
    /\ \E r \in Responses :
         CASE r = "ok"        -> OkBranch
           [] r = "timed_out" -> TimedOutBranch
           [] OTHER           -> ExceptBranch(timeout_count)
    /\ UNCHANGED <<fixture, expected_count, yielded, results_count, current_file_index,
                   json_file_path, files, csv_rows, wpc, final_event>>
    /\ UNCHANGED <<json_written, streams_opened, prior_retried>>
    /\ UNCHANGED sysVars

----------------------------------------------------------------------------
(* month_worker: the export of one job                                     *)

\* f"{OUTPUT_PATH}/dois/updated_{year}-{month:02d}/part_{current_file_index:04d}.jsonl.gz"
PartPath(index) == <<"part", index>>

\* gzip.open(path, "wt"): creates the file, or truncates it
OpenWt(fs, path) == [p \in DOMAIN fs \cup {path} |-> IF p = path THEN << >> ELSE fs[p]]

WriteLine(fs, path, line) == [fs EXCEPT ![path] = Append(@, line)]

\* worker.py:59-78: open the two output files
OpenFiles ==
    /\ wpc = "start"
    /\ json_file_path' = PartPath(current_file_index)
    /\ files' = OpenWt(files, PartPath(current_file_index))
    /\ csv_rows' = << >>
    /\ wpc' = "loop"
    /\ UNCHANGED <<fixture, expected_count, search_after, timeout_count, failure_count,
                   query_finished, raised, hits, requests, sleeps, yielded, results_count,
                   current_file_index, final_event>>
    /\ UNCHANGED <<response, json_written, streams_opened, prior_retried>>
    /\ UNCHANGED sysVars

\* the path the rotation opens, worker.py:104: json_file_path is not
\* rebuilt from the incremented current_file_index
RotatedPath(path, index) == path

\* a mutant of Findable: every record is written to the sequence file
FindableOrNot(result) == TRUE

\* worker.py:90: if result.aasm_state == "findable"
Findable(result) == result.aasm_state = "findable"

\* worker.py:83-107: the body of `for result in results` for one record
PullRecord ==
    /\ wpc = "loop" /\ hits # << >>
    /\ LET result == Head(hits)
           count == results_count + 1
           written == IF Findable(result)
                        THEN WriteLine(files, json_file_path, result.uid)
                        ELSE files
       IN /\ hits' = Tail(hits)
          /\ json_written' = IF Findable(result) THEN Append(json_written, result.uid)
                                                 ELSE json_written
          /\ yielded' = Append(yielded, result.uid)
          /\ results_count' = count
          /\ csv_rows' = Append(csv_rows, [doi |-> result.uid, state |-> result.aasm_state])
          /\ IF expected_count = None
               \* `expected_count > 1000000` raises TypeError on None: worker.py:95,
               \* caught at worker.py:116 and raised again as FatalWorkerError
               THEN /\ files' = written
                    /\ wpc' = "FatalWorkerError"
                    /\ UNCHANGED <<current_file_index>>
               ELSE IF count % RotateEvery = 0
                 THEN /\ current_file_index' = current_file_index + 1
                      /\ files' = OpenWt(written,
                                         RotatedPath(json_file_path, current_file_index + 1))
                      /\ UNCHANGED wpc
                 ELSE /\ files' = written
                      /\ UNCHANGED <<current_file_index, wpc>>
    /\ UNCHANGED <<fixture, expected_count, search_after, timeout_count, failure_count,
                   query_finished, raised, requests, sleeps, json_file_path, final_event>>
    /\ UNCHANGED <<response, streams_opened, prior_retried>>
    /\ UNCHANGED sysVars

\* worker.py:109-114: the stream is exhausted
ReportFinal ==
    /\ wpc = "loop" /\ query_finished /\ hits = << >>
    /\ final_event' = [status |-> "final", count |-> results_count]
    /\ wpc' = "reported"
    /\ UNCHANGED <<fixture, expected_count, search_after, timeout_count, failure_count,
                   query_finished, raised, hits, requests, sleeps, yielded, results_count,
                   current_file_index, json_file_path, files, csv_rows>>
    /\ UNCHANGED <<response, json_written, streams_opened, prior_retried>>
    /\ UNCHANGED sysVars

\* worker.py:116-118: the stream raised
StreamRaised ==
    /\ wpc = "loop" /\ raised # "none"
    /\ wpc' = "FatalWorkerError"
    /\ UNCHANGED <<fixture, expected_count, search_after, timeout_count, failure_count,
                   query_finished, raised, hits, requests, sleeps, yielded, results_count,
                   current_file_index, json_file_path, files, csv_rows, final_event>>
    /\ UNCHANGED <<response, json_written, streams_opened, prior_retried>>
    /\ UNCHANGED sysVars

\* what the worker finds on disk for the bucket of its next job; it removes
\* nothing before gzip.open truncates the two files it opens
\* (worker.py:63-73):
\*   "same"  the bucket just exported, regenerated: what this export left;
\*   "new"   a bucket not exported before: nothing;
\*   "left"  another bucket, exported before: what that export left, here
\*           the output for one findable record
Directories == {"same", "new", "left"}

DirectoryFiles(directory) ==
    CASE directory = "same" -> files
      [] directory = "new"  -> << >>
      [] directory = "left" -> [path \in {PartPath(0)} |-> <<1>>]

DirectoryRows(directory) ==
    CASE directory = "same" -> csv_rows
      [] directory = "new"  -> << >>
      [] directory = "left" -> <<[doi |-> 1, state |-> "findable"]>>

\* job['count'] of a job for this stream of records: the count of the
\* histogram or of get_month_count, or None when the count query failed
\* (utils.py:28-31)
JobCounts == {None, fixture.n}

\* worker.py:31-63 and opensearch.py:39-42: the worker loops back for its
\* next job: job['count'] is read (worker.py:40), a new client, a new query
\* without cursor, a new stream whose counters are its own locals. (The
\* backend treats the next job as it treated this one.)
NextJob(directory, count) ==
    /\ wpc = "reported" /\ streams_opened < MaxStreams
    /\ search_after' = NoCursor
    /\ timeout_count' = 0
    /\ failure_count' = 0
    /\ query_finished' = FALSE
    /\ requests' = 0
    /\ sleeps' = 0
    /\ yielded' = << >>
    /\ results_count' = 0
    /\ current_file_index' = 0
    /\ json_file_path' = << >>
    /\ expected_count' = count
    /\ files' = DirectoryFiles(directory)
    /\ csv_rows' = DirectoryRows(directory)
    /\ json_written' = << >>
    /\ response' = << >>
    /\ final_event' = NoEvent
    /\ wpc' = "start"
    /\ streams_opened' = streams_opened + 1
    /\ prior_retried' = (prior_retried \/ timeout_count > 0 \/ failure_count > 0)
    /\ UNCHANGED <<fixture, raised, hits>>
    /\ UNCHANGED sysVars

----------------------------------------------------------------------------
(* Strings, as sequences of characters: the bucket keys of results_thread  *)

Digit(d) ==
    CASE d = 0 -> "0" [] d = 1 -> "1" [] d = 2 -> "2" [] d = 3 -> "3" [] d = 4 -> "4"
      [] d = 5 -> "5" [] d = 6 -> "6" [] d = 7 -> "7" [] d = 8 -> "8" [] OTHER -> "9"

DigitValue(c) ==
    CASE c = "0" -> 0 [] c = "1" -> 1 [] c = "2" -> 2 [] c = "3" -> 3 [] c = "4" -> 4
      [] c = "5" -> 5 [] c = "6" -> 6 [] c = "7" -> 7 [] c = "8" -> 8 [] OTHER -> 9

\* str(n), the f-string conversion of a non-negative int
RECURSIVE Str(_)
Str(n) == IF n < 10 THEN <<Digit(n)>> ELSE Append(Str(n \div 10), Digit(n % 10))

\* f"{n:02d}", and %m of strftime (and the date histogram's MM)
Pad2(n) == IF n < 10 THEN <<"0">> \o Str(n) ELSE Str(n)

\* int(s) of a string of digits
RECURSIVE ParseInt(_)
ParseInt(s) == IF Len(s) = 0 THEN 0
          ELSE ParseInt(SubSeq(s, 1, Len(s) - 1)) * 10 + DigitValue(s[Len(s)])

\* key.split('-'), then int() of both parts: main.py:126-128 and :231-233
SplitKey(key) ==
    LET dash == CHOOSE i \in 1..Len(key) : key[i] = "-"
    IN  [year |-> ParseInt(SubSeq(key, 1, dash - 1)), month |-> ParseInt(SubSeq(key, dash + 1, Len(key)))]

\* a mutant of ResultKey: the month padded as strftime pads it
ResultKeyPadded(year, month) == Str(year) \o <<"-">> \o Pad2(month)

\* main.py:85: key = f"{year}-{month}"
ResultKey(year, month) == Str(year) \o <<"-">> \o Str(month)

\* main.py:101: date.today().strftime("%Y-%m")
CurrentKey(day) == Str(day.year) \o <<"-">> \o Pad2(day.month)

\* bucket.key_as_string of the date histogram, format yyyy-MM: main.py:226
KeyAsString(year, month) == Str(year) \o <<"-">> \o Pad2(month)

----------------------------------------------------------------------------
(* The dict `results` of results_thread, in insertion order                *)

Keys(res) == {res[i].key : i \in DOMAIN res}

Value(res, key) == res[CHOOSE i \in DOMAIN res : res[i].key = key].value

\* a mutant of SetField: a field that is already there keeps its value
SetFieldKeepFirst(res, key, field, v) ==
    IF key \in Keys(res)
      THEN [i \in DOMAIN res |->
              IF res[i].key = key
                THEN [key |-> key, value |-> res[i].value @@ (field :> v)]
                ELSE res[i]]
      ELSE Append(res, [key |-> key, value |-> (field :> v)])

\* if key not in results: results[key] = {}; results[key][field] = v
SetField(res, key, field, v) ==
    IF key \in Keys(res)
      THEN [i \in DOMAIN res |->
              IF res[i].key = key
                THEN [key |-> key, value |-> (field :> v) @@ res[i].value]
                ELSE res[i]]
      ELSE Append(res, [key |-> key, value |-> (field :> v)])

\* a mutant of Del: only final, diff and pct of the bucket are removed
DelFinalOnly(res, key) ==
    [i \in DOMAIN res |->
        IF res[i].key = key
          THEN [key |-> key,
                value |-> [f \in DOMAIN res[i].value \ {"final", "diff", "pct"} |-> res[i].value[f]]]
          ELSE res[i]]

\* del results[key]
Del(res, key) == SelectSeq(res, LAMBDA e : e.key # key)

\* a mutant of Pct: the percentage of the records delivered
PctOfFinal(diff, expected) ==
    IF expected > 0 THEN <<(expected - diff) * 100, expected>> ELSE <<0, 1>>

\* main.py:96: the percentage, kept as the exact fraction num/den
Pct(diff, expected) == IF expected > 0 THEN <<diff * 100, expected>> ELSE <<0, 1>>

\* main.py:99: all(["final" in results[key] for key in results])
AllFinal(res) == \A i \in DOMAIN res : "final" \in DOMAIN res[i].value

\* main.py:102: sum(results[key]['diff'] for key in results if key != current_key)
RECURSIVE Discrepancy(_, _)
Discrepancy(res, current_key) ==
    IF res = << >> THEN 0
    ELSE (IF Head(res).key # current_key THEN Head(res).value.diff ELSE 0)
         + Discrepancy(Tail(res), current_key)

\* a mutant of MonthsToRerun: the months at or above the threshold
MonthsToRerunAtLeast(res, threshold) ==
    LET sel == SelectSeq(res, LAMBDA e : e.value.diff >= threshold)
    IN  [i \in DOMAIN sel |-> sel[i].key]

\* main.py:110: [key for key in results if results[key]['diff'] > MONTH_THRESHOLD]
MonthsToRerun(res, threshold) ==
    LET sel == SelectSeq(res, LAMBDA e : e.value.diff > threshold)
    IN  [i \in DOMAIN sel |-> sel[i].key]

----------------------------------------------------------------------------
(* Jobs and events                                                         *)

\* a mutant of Job: the job does not carry the count
JobWithoutCount(year, month, count, id) ==
    [year |-> year, month |-> month, count |-> None, id |-> id]

\* utils.py:43-47; id is not in the code: it names the put, for the claims
Job(year, month, count, id) == [year |-> year, month |-> month, count |-> count, id |-> id]

\* the sentinel: work_queue.put(None), main.py:137 and :143
Sentinel == [sentinel |-> TRUE]

\* the local `job` of a worker that holds no job
NoJob == [job |-> FALSE]

\* a mutant of ExpectedEvent: the event carries no count
ExpectedEventNoCount(year, month, count) ==
    [year |-> year, month |-> month, count |-> None, status |-> "expected"]

\* utils.py:48-53
ExpectedEvent(year, month, count) ==
    [year |-> year, month |-> month, count |-> count, status |-> "expected"]

\* worker.py:112; id names the job it answers, for the claims
FinalEvent(job, count) ==
    [year |-> job.year, month |-> job.month, count |-> count, status |-> "final", id |-> job.id]

\* results_queue.put(None), main.py:264
StopEvent == [stop |-> TRUE]

\* utils.py:37-41: `if count:` keeps a count that is truthy, else asks
\* get_month_count, whose answer (None when the query failed) is recount
ResolveCount(count, recount) == IF count # None /\ count # 0 THEN count ELSE recount

\* history: one more put of `what` ("jobs" or "expected") for a bucket
CountPut(enq, year, month, what) ==
    LET Same(e) == e.year = year /\ e.month = month
    IN  IF \E i \in DOMAIN enq : Same(enq[i])
          THEN [i \in DOMAIN enq |->
                  IF Same(enq[i]) THEN [enq[i] EXCEPT ![what] = @ + 1] ELSE enq[i]]
          ELSE Append(enq, [year |-> year, month |-> month,
                            jobs |-> IF what = "jobs" THEN 1 ELSE 0,
                            expected |-> IF what = "expected" THEN 1 ELSE 0])

----------------------------------------------------------------------------
(* main.py, __main__: the seeding loop and the joins                       *)

\* main.py:230-237 with utils.py:36-47: queue_month up to work_queue.put
SeedPutJob(recount) ==
    /\ mpc = "seed" /\ buckets # << >>
    /\ LET bucket == Head(buckets)
           ym == SplitKey(bucket.key_as_string)
           count == ResolveCount(bucket.doc_count, recount)
       IN /\ work_queue' = Append(work_queue, Job(ym.year, ym.month, count, jobs_put + 1))
          /\ mcount' = count
    /\ jobs_put' = jobs_put + 1
    /\ takes' = Append(takes, << >>)
    /\ finals_put' = Append(finals_put, 0)
    /\ mpc' = "seed_expected"
    /\ UNCHANGED <<TOTAL_THRESHOLD, MONTH_THRESHOLD, today, buckets, results_queue, workers,
                   results, rpc, months_to_rerun, rcount, sentinels_left, sentinels_put,
                   regenerated, last_round>>
    /\ UNCHANGED exportVars
    /\ LET ym == SplitKey(Head(buckets).key_as_string)
       IN enqueued' = CountPut(enqueued, ym.year, ym.month, "jobs")

\* utils.py:48-53: queue_month, results_queue.put of the Expected event
SeedPutExpected ==
    /\ mpc = "seed_expected"
    /\ LET ym == SplitKey(Head(buckets).key_as_string)
       IN results_queue' = Append(results_queue, ExpectedEvent(ym.year, ym.month, mcount))
    /\ buckets' = Tail(buckets)
    /\ mpc' = "seed"
    /\ UNCHANGED <<TOTAL_THRESHOLD, MONTH_THRESHOLD, today, mcount, work_queue, workers,
                   results, rpc, months_to_rerun, rcount, sentinels_left, jobs_put,
                   sentinels_put, takes, finals_put, regenerated, last_round>>
    /\ UNCHANGED exportVars
    /\ LET ym == SplitKey(Head(buckets).key_as_string)
       IN enqueued' = CountPut(enqueued, ym.year, ym.month, "expected")

\* a mutant of Alive: a worker that waits for a job does not hold the join
AliveWhileExporting(w) == workers[w].pc = "job"

\* wp.join() returns when the process has ended: main.py:259-260
Alive(w) == workers[w].pc \in {"get", "job"}

\* main.py:256-264: the seeding is over (or the histogram query raised);
\* wp.join() of every worker, then results_queue.put(None)
JoinWorkers ==
    /\ mpc = "seed" /\ buckets = << >>
    /\ \A w \in DOMAIN workers : ~Alive(w)
    /\ results_queue' = Append(results_queue, StopEvent)
    /\ mpc' = "join_results"
    /\ UNCHANGED <<TOTAL_THRESHOLD, MONTH_THRESHOLD, today, buckets, mcount, work_queue,
                   workers, results, rpc, months_to_rerun, rcount, sentinels_left, jobs_put,
                   sentinels_put, takes, finals_put, regenerated, last_round>>
    /\ UNCHANGED exportVars
    /\ UNCHANGED enqueued

\* main.py:265: results_thread.join()
JoinResults ==
    /\ mpc = "join_results"
    /\ rpc \in {"stopped", "KeyError", "TypeError"}
    /\ mpc' = "done"
    /\ UNCHANGED <<TOTAL_THRESHOLD, MONTH_THRESHOLD, today, buckets, mcount, work_queue,
                   results_queue, workers, results, rpc, months_to_rerun, rcount,
                   sentinels_left, jobs_put, sentinels_put, takes, finals_put, regenerated,
                   last_round>>
    /\ UNCHANGED exportVars
    /\ UNCHANGED enqueued

----------------------------------------------------------------------------
(* worker.py, month_worker: the loop of one worker of the pool. The export *)
(* of the job itself is SpecExport; here it ends with a Final event that   *)
(* carries the number of records pulled, or with FatalWorkerError.         *)

\* a mutant of Dequeue: the job is read but stays at the head of the queue
DequeuePeek(queue) == queue

\* work_queue.get(): the queue without its head
Dequeue(queue) == Tail(queue)

\* worker.py:31-41: job = work_queue.get(); the sentinel stops the worker
WorkerGet(w) ==
    /\ workers[w].pc = "get" /\ work_queue # << >>
    /\ LET job == Head(work_queue)
       IN IF job = Sentinel
            THEN /\ workers' = [workers EXCEPT ![w] = [pc |-> "stopped", job |-> NoJob]]
                 /\ UNCHANGED takes
            ELSE /\ workers' = [workers EXCEPT ![w] = [pc |-> "job", job |-> job]]
                 /\ takes' = [takes EXCEPT ![job.id] = Append(@, w)]
    /\ work_queue' = Dequeue(work_queue)
    /\ UNCHANGED <<TOTAL_THRESHOLD, MONTH_THRESHOLD, today, buckets, mpc, mcount,
                   results_queue, results, rpc, months_to_rerun, rcount, sentinels_left,
                   jobs_put, sentinels_put, finals_put, regenerated, last_round>>
    /\ UNCHANGED exportVars
    /\ UNCHANGED enqueued

\* worker.py:80-114: the stream ended after `count` records. With a job
\* whose count is None the first record raises (worker.py:95), so such a
\* job ends here only when the stream is empty.
WorkerFinal(w, count) ==
    /\ workers[w].pc = "job"
    /\ workers[w].job.count # None \/ count = 0
    /\ results_queue' = Append(results_queue, FinalEvent(workers[w].job, count))
    /\ finals_put' = [finals_put EXCEPT ![workers[w].job.id] = @ + 1]
    /\ workers' = [workers EXCEPT ![w] = [pc |-> "get", job |-> NoJob]]
    /\ UNCHANGED <<TOTAL_THRESHOLD, MONTH_THRESHOLD, today, buckets, mpc, mcount, work_queue,
                   results, rpc, months_to_rerun, rcount, sentinels_left, jobs_put,
                   sentinels_put, takes, regenerated, last_round>>
    /\ UNCHANGED exportVars
    /\ UNCHANGED enqueued

\* worker.py:47-52, :68-78, :116-118: raise FatalWorkerError ends the process
WorkerFatal(w) ==
    /\ workers[w].pc = "job"
    /\ workers' = [workers EXCEPT ![w] = [pc |-> "FatalWorkerError", job |-> @.job]]
    /\ UNCHANGED <<TOTAL_THRESHOLD, MONTH_THRESHOLD, today, buckets, mpc, mcount, work_queue,
                   results_queue, results, rpc, months_to_rerun, rcount, sentinels_left,
                   jobs_put, sentinels_put, takes, finals_put, regenerated, last_round>>
    /\ UNCHANGED exportVars
    /\ UNCHANGED enqueued

----------------------------------------------------------------------------
(* main.py, results_thread                                                 *)

\* main.py:75-78: the report line of every bucket reads all four fields
ReportComplete(res) ==
    \A i \in DOMAIN res : {"expected", "final", "diff", "pct"} \subseteq DOMAIN res[i].value

\* main.py:71-78: None on the results queue: write results.csv and stop
ResultsStop ==
    /\ rpc = "get" /\ results_queue # << >> /\ Head(results_queue) = StopEvent
    /\ results_queue' = Tail(results_queue)
    /\ rpc' = IF ReportComplete(results) THEN "stopped" ELSE "KeyError"
    /\ UNCHANGED <<TOTAL_THRESHOLD, MONTH_THRESHOLD, today, buckets, mpc, mcount, work_queue,
                   workers, results, months_to_rerun, rcount, sentinels_left, jobs_put,
                   sentinels_put, takes, finals_put, regenerated, last_round>>
    /\ UNCHANGED exportVars
    /\ UNCHANGED enqueued

\* main.py:104: if discrepancy > TOTAL_THRESHOLD, the threshold an int
AboveTotal(discrepancy) == discrepancy > TOTAL_THRESHOLD.int

\* an environment variable: unset, or set to a string
Unset == [set |-> FALSE]
Setenv(value) == [set |-> TRUE, value |-> value]

\* config.py:17-18: getenv(name, default) gives the value of the variable,
\* a str, or the default as it is written, an int, when the variable is unset
Getenv(variable, default) ==
    IF variable.set THEN [str |-> variable.value] ELSE [int |-> default]

\* Python compares an int with an int; `int > str` raises TypeError
IsStr(threshold) == "str" \in DOMAIN threshold

\* main.py:95-96: diff and pct of a bucket, computed from its two counts
WithDiff(res, key) ==
    LET v == Value(res, key)
        diff == v["expected"] - v["final"]
    IN  SetField(SetField(res, key, "diff", diff), key, "pct", Pct(diff, v["expected"]))

\* main.py:80-143: one bucket event, up to the decision of the round
ResultsGet ==
    /\ rpc = "get" /\ results_queue # << >> /\ Head(results_queue) # StopEvent
    /\ results_queue' = Tail(results_queue)
    /\ LET result == Head(results_queue)
           key == ResultKey(result.year, result.month)
           merged == SetField(results, key, result.status, result.count)
       IN IF result.status # "final"
            THEN /\ results' = merged
                 /\ UNCHANGED <<rpc, months_to_rerun, sentinels_left, last_round>>
          ELSE IF "expected" \notin DOMAIN Value(merged, key)
            \* results[key]['expected'] raises KeyError: the thread dies
            THEN /\ results' = merged
                 /\ rpc' = "KeyError"
                 /\ UNCHANGED <<months_to_rerun, sentinels_left, last_round>>
          ELSE IF Value(merged, key)["expected"] = None
            \* None - int raises TypeError: the thread dies
            THEN /\ results' = merged
                 /\ rpc' = "TypeError"
                 /\ UNCHANGED <<months_to_rerun, sentinels_left, last_round>>
          ELSE LET computed == WithDiff(merged, key)
                   discrepancy == Discrepancy(computed, CurrentKey(today))
                   rerun == MonthsToRerun(computed, MONTH_THRESHOLD.int)
               IN /\ results' = computed
                  /\ IF ~AllFinal(computed)
                       THEN UNCHANGED <<rpc, months_to_rerun, sentinels_left, last_round>>
                     ELSE IF IsStr(TOTAL_THRESHOLD)
                       \* main.py:104: int > str raises TypeError: the thread dies
                       THEN /\ rpc' = "TypeError"
                            /\ UNCHANGED <<months_to_rerun, sentinels_left, last_round>>
                     ELSE IF AboveTotal(discrepancy) /\ IsStr(MONTH_THRESHOLD)
                       \* main.py:109-110: the same, for some bucket of results
                       THEN /\ rpc' = "TypeError"
                            /\ UNCHANGED <<months_to_rerun, sentinels_left, last_round>>
                     ELSE IF AboveTotal(discrepancy) /\ Len(rerun) > 0
                       THEN /\ Len(regenerated) + Len(rerun) <= MaxRegen
                            /\ rpc' = "regen_del"
                            /\ months_to_rerun' = rerun
                            /\ last_round' = [n |-> last_round.n + 1, results |-> computed,
                                              discrepancy |-> discrepancy,
                                              decision |-> "regenerate", rerun |-> rerun]
                            /\ UNCHANGED sentinels_left
                       ELSE /\ rpc' = "sentinels"
                            /\ sentinels_left' = WorkerCount
                            /\ last_round' = [n |-> last_round.n + 1, results |-> computed,
                                              discrepancy |-> discrepancy,
                                              decision |-> "shutdown", rerun |-> << >>]
                            /\ UNCHANGED months_to_rerun
    /\ UNCHANGED <<TOTAL_THRESHOLD, MONTH_THRESHOLD, today, buckets, mpc, mcount, work_queue,
                   workers, rcount, jobs_put, sentinels_put, takes, finals_put, regenerated>>
    /\ UNCHANGED exportVars
    /\ UNCHANGED enqueued

\* main.py:125-132 with utils.py:36-41: del results[key], then queue_month
\* with count=None up to the count query of get_month_count (utils.py:28),
\* whose answer the thread waits for
RegenDelete ==
    /\ rpc = "regen_del"
    /\ results' = Del(results, Head(months_to_rerun))
    /\ rpc' = "regen_job"
    /\ UNCHANGED <<TOTAL_THRESHOLD, MONTH_THRESHOLD, today, buckets, mpc, mcount, work_queue,
                   results_queue, workers, months_to_rerun, rcount, sentinels_left, jobs_put,
                   sentinels_put, takes, finals_put, regenerated, last_round>>
    /\ UNCHANGED exportVars
    /\ UNCHANGED enqueued

\* utils.py:41-47: recount is get_month_count's answer; work_queue.put
RegenPutJob(recount) ==
    /\ rpc = "regen_job"
    /\ LET key == Head(months_to_rerun)
           ym == SplitKey(key)
           count == ResolveCount(None, recount)
       IN /\ work_queue' = Append(work_queue, Job(ym.year, ym.month, count, jobs_put + 1))
          /\ rcount' = count
          /\ regenerated' = Append(regenerated, key)
    /\ jobs_put' = jobs_put + 1
    /\ takes' = Append(takes, << >>)
    /\ finals_put' = Append(finals_put, 0)
    /\ rpc' = "regen_expected"
    /\ UNCHANGED <<TOTAL_THRESHOLD, MONTH_THRESHOLD, today, buckets, mpc, mcount,
                   results_queue, workers, results, months_to_rerun, sentinels_left,
                   sentinels_put, last_round>>
    /\ UNCHANGED exportVars
    /\ LET ym == SplitKey(Head(months_to_rerun))
       IN enqueued' = CountPut(enqueued, ym.year, ym.month, "jobs")

\* utils.py:48-53: queue_month, results_queue.put of the Expected event
RegenPutExpected ==
    /\ rpc = "regen_expected"
    /\ LET ym == SplitKey(Head(months_to_rerun))
       IN results_queue' = Append(results_queue, ExpectedEvent(ym.year, ym.month, rcount))
    /\ months_to_rerun' = Tail(months_to_rerun)
    /\ rpc' = IF Tail(months_to_rerun) = << >> THEN "get" ELSE "regen_del"
    /\ UNCHANGED <<TOTAL_THRESHOLD, MONTH_THRESHOLD, today, buckets, mpc, mcount, work_queue,
                   workers, results, rcount, sentinels_left, jobs_put, sentinels_put, takes,
                   finals_put, regenerated, last_round>>
    /\ UNCHANGED exportVars
    /\ LET ym == SplitKey(Head(months_to_rerun))
       IN enqueued' = CountPut(enqueued, ym.year, ym.month, "expected")

\* main.py:135-137 and :141-143: one work_queue.put(None) of the loop over
\* range(worker_count). (The sleep(1) before it orders nothing.)
PutSentinel ==
    /\ rpc = "sentinels"
    /\ work_queue' = Append(work_queue, Sentinel)
    /\ sentinels_put' = sentinels_put + 1
    /\ sentinels_left' = sentinels_left - 1
    /\ rpc' = IF sentinels_left = 1 THEN "get" ELSE "sentinels"
    /\ UNCHANGED <<TOTAL_THRESHOLD, MONTH_THRESHOLD, today, buckets, mpc, mcount,
                   results_queue, workers, results, months_to_rerun, rcount, jobs_put,
                   takes, finals_put, regenerated, last_round>>
    /\ UNCHANGED exportVars
    /\ UNCHANGED enqueued

----------------------------------------------------------------------------
(* The run                                                                 *)

\* a count over both thresholds
CountStep == DefaultTotalThreshold + DefaultMonthThreshold

\* the counts the backend may report
Counts == {c * CountStep : c \in 0..MaxCount}

\* get_month_count: a count, or None when the query raised (utils.py:27-31)
Recounts == Counts \cup {None}

\* the months of the date histogram, in its order
Months == << [year |-> 2024, month |-> 1], [year |-> 2024, month |-> 11],
             [year |-> 2024, month |-> 12] >>

Histograms ==
    UNION { { [i \in 1..n |-> [key_as_string |-> KeyAsString(Months[i].year, Months[i].month),
                               doc_count |-> c[i]]] : c \in [1..n -> Counts] } :
            n \in 0..MaxBuckets }

\* TOTAL_THRESHOLD and MONTH_THRESHOLD of a run whose environment sets
\* neither: config.py:17-18
Thresholds ==
    /\ TOTAL_THRESHOLD = Getenv(Unset, DefaultTotalThreshold)
    /\ MONTH_THRESHOLD = Getenv(Unset, DefaultMonthThreshold)

\* the state common to every run, before the seeding
InitRun ==
    /\ mpc = "seed"
    /\ mcount = None
    /\ work_queue = << >>
    /\ results_queue = << >>
    /\ workers = [w \in 1..WorkerCount |-> [pc |-> "get", job |-> NoJob]]
    /\ results = << >>
    /\ rpc = "get"
    /\ months_to_rerun = << >>
    /\ rcount = None
    /\ sentinels_left = 0
    /\ jobs_put = 0
    /\ sentinels_put = 0
    /\ takes = << >>
    /\ finals_put = << >>
    /\ regenerated = << >>
    /\ enqueued = << >>
    /\ last_round = [n |-> 0, results |-> << >>, discrepancy |-> 0,
                     decision |-> "none", rerun |-> << >>]

\* the export of one month is not part of the run's state
ExportIdle ==
    /\ fixture = [n |-> 0, page |-> 1, mode |-> "happy", states |-> << >>]
    /\ expected_count = None
    /\ search_after = NoCursor
    /\ timeout_count = 0
    /\ failure_count = 0
    /\ query_finished = FALSE
    /\ raised = "none"
    /\ hits = << >>
    /\ response = << >>
    /\ requests = 0
    /\ sleeps = 0
    /\ yielded = << >>
    /\ results_count = 0
    /\ current_file_index = 0
    /\ json_file_path = << >>
    /\ files = << >>
    /\ csv_rows = << >>
    /\ wpc = "idle"
    /\ final_event = NoEvent
    /\ json_written = << >>
    /\ streams_opened = 0
    /\ prior_retried = FALSE

Init ==
    /\ Thresholds
    /\ today \in {Months[1], Months[2]}
    /\ buckets \in Histograms
    /\ InitRun
    /\ ExportIdle

Next ==
    \/ \E recount \in Recounts : SeedPutJob(recount)
    \/ SeedPutExpected
    \/ JoinWorkers
    \/ JoinResults
    \/ \E w \in DOMAIN workers : WorkerGet(w)
    \/ \E w \in DOMAIN workers : \E count \in Counts : WorkerFinal(w, count)
    \/ \E w \in DOMAIN workers : WorkerFatal(w)
    \/ ResultsStop
    \/ ResultsGet
    \/ RegenDelete
    \/ \E recount \in Recounts : RegenPutJob(recount)
    \/ RegenPutExpected
    \/ PutSentinel

Spec == Init /\ [][Next]_vars

----------------------------------------------------------------------------
(* The run without worker failure on a histogram that has an empty month,  *)
(* whose count query fails; every thread and every process is scheduled    *)
(* again and again.                                                        *)

\* the date histogram returns the months without records too, doc_count 0
EmptyMonthHistogram ==
    << [key_as_string |-> KeyAsString(Months[1].year, Months[1].month), doc_count |-> MaxCount * CountStep],
       [key_as_string |-> KeyAsString(Months[2].year, Months[2].month), doc_count |-> 0] >>

InitFair ==
    /\ Thresholds
    /\ today = Months[2]
    /\ buckets = EmptyMonthHistogram
    /\ InitRun
    /\ ExportIdle

\* the main thread, main.py:228-265; queue_month asks for the count of the
\* month whose doc_count is 0 (utils.py:37-41), and that query fails
MainThread ==
    \/ SeedPutJob(None)
    \/ SeedPutExpected
    \/ JoinWorkers
    \/ JoinResults

\* a worker process that does not fail: worker.py:31-114
WorkerProcess(w) ==
    \/ WorkerGet(w)
    \/ \E count \in Counts : WorkerFinal(w, count)

\* the thread of results_thread: main.py:68-143
ResultsThread ==
    \/ ResultsStop
    \/ ResultsGet
    \/ RegenDelete
    \/ \E recount \in Recounts : RegenPutJob(recount)
    \/ RegenPutExpected
    \/ PutSentinel

NextFair ==
    \/ MainThread
    \/ \E w \in DOMAIN workers : WorkerProcess(w)
    \/ ResultsThread

\* the operating system runs every thread and process that can take a step:
\* they only ever wait on a queue's get, or on a join
Fairness ==
    /\ WF_vars(MainThread)
    /\ \A w \in 1..WorkerCount : WF_vars(WorkerProcess(w))
    /\ WF_vars(ResultsThread)

SpecFair == InitFair /\ [][NextFair]_vars /\ Fairness

----------------------------------------------------------------------------
(* results_thread alone: any sequence of bucket events on its queue        *)

\* the counts of the events: with them a diff can be within a threshold,
\* equal to it, or over it
EventCounts == {0, DefaultMonthThreshold, CountStep}

\* the bucket events a harness may put on the results queue
Events ==
    { [year |-> Months[m].year, month |-> Months[m].month, count |-> c, status |-> st, id |-> 0] :
        m \in 1..2, c \in EventCounts, st \in {"expected", "final"} }

EventSeqs == UNION { [1..n -> Events] : n \in 0..MaxEvents }

InitReconciler ==
    /\ Thresholds
    /\ today \in {Months[1], Months[2]}
    /\ buckets = << >>
    /\ mpc = "harness"
    /\ mcount = None
    /\ work_queue = << >>
    /\ results_queue \in EventSeqs
    /\ workers = [w \in 1..WorkerCount |-> [pc |-> "get", job |-> NoJob]]
    /\ results = << >>
    /\ rpc = "get"
    /\ months_to_rerun = << >>
    /\ rcount = None
    /\ sentinels_left = 0
    /\ jobs_put = 0
    /\ sentinels_put = 0
    /\ takes = << >>
    /\ finals_put = << >>
    /\ regenerated = << >>
    /\ enqueued = << >>
    /\ last_round = [n |-> 0, results |-> << >>, discrepancy |-> 0,
                     decision |-> "none", rerun |-> << >>]
    /\ ExportIdle

NextReconciler ==
    \/ ResultsGet
    \/ RegenDelete
    \/ \E recount \in Recounts : RegenPutJob(recount)
    \/ RegenPutExpected
    \/ PutSentinel

SpecReconciler == InitReconciler /\ [][NextReconciler]_vars

----------------------------------------------------------------------------
(* The worker pool alone: the seeding loop puts the jobs of a histogram,   *)
(* and the sentinels are put at any time                                   *)

\* a date histogram of MaxJobs months; every other month has no records,
\* and queue_month asks for its count
PoolHistogram ==
    [i \in 1..MaxJobs |-> [key_as_string |-> KeyAsString(2024, i),
                           doc_count |-> IF i % 2 = 1 THEN MaxCount * CountStep ELSE 0]]

\* work_queue.put(None): main.py:137 and :143, worker_count times at every
\* shutdown decision, and there may be more decisions than one
PutNone ==
    /\ sentinels_put < MaxSentinels
    /\ work_queue' = Append(work_queue, Sentinel)
    /\ sentinels_put' = sentinels_put + 1
    /\ UNCHANGED <<TOTAL_THRESHOLD, MONTH_THRESHOLD, today, buckets, mpc, mcount,
                   results_queue, workers, results, rpc, months_to_rerun, rcount,
                   sentinels_left, jobs_put, takes, finals_put, regenerated, last_round>>
    /\ UNCHANGED exportVars
    /\ UNCHANGED enqueued

InitPool ==
    /\ Thresholds
    /\ today = Months[2]
    /\ buckets = PoolHistogram
    /\ InitRun
    /\ ExportIdle

\* what the export of a job delivers before the pool alone: the records
\* the job expects
PoolFinal(job) == IF job.count = None THEN 0 ELSE job.count

NextPool ==
    \/ \E recount \in {None, MaxCount * CountStep} : SeedPutJob(recount)
    \/ SeedPutExpected
    \/ PutNone
    \/ \E w \in DOMAIN workers : WorkerGet(w)
    \/ \E w \in DOMAIN workers : workers[w].pc = "job" /\ WorkerFinal(w, PoolFinal(workers[w].job))
    \/ \E w \in DOMAIN workers : WorkerFatal(w)

SpecPool == InitPool /\ [][NextPool]_vars

----------------------------------------------------------------------------
(* The run on the scenario of the specification, section 8: two months,    *)
(* 2024-01 with expected 100 and final 100, 2024-02 with expected 100 and  *)
(* final 40, then final 100 when regenerated; MONTH_THRESHOLD 50 and       *)
(* TOTAL_THRESHOLD 10, which only the environment can set (the defaults    *)
(* are 400 and 1000); no worker fails.                                     *)

ScenarioHistogram ==
    << [key_as_string |-> KeyAsString(2024, 1), doc_count |-> 100],
       [key_as_string |-> KeyAsString(2024, 2), doc_count |-> 100] >>

\* what the export of a job delivers in the scenario
ScenarioFinal(job) ==
    IF job.month = 2 /\ job.id <= Len(ScenarioHistogram) THEN 40 ELSE 100

InitScenario ==
    /\ TOTAL_THRESHOLD = Getenv(Setenv(Str(10)), DefaultTotalThreshold)
    /\ MONTH_THRESHOLD = Getenv(Setenv(Str(50)), DefaultMonthThreshold)
    /\ today = [year |-> 2024, month |-> 11]
    /\ buckets = ScenarioHistogram
    /\ InitRun
    /\ ExportIdle

\* results_thread compares the discrepancy with a str at its first
\* completeness check (main.py:104) and dies: nothing is ever decided, no
\* bucket is regenerated and no sentinel is put, so no worker ends and the
\* main thread stays in the join of the workers
NextScenario ==
    \/ SeedPutJob(100)
    \/ SeedPutExpected
    \/ \E w \in DOMAIN workers : WorkerGet(w)
    \/ \E w \in DOMAIN workers : workers[w].pc = "job" /\ WorkerFinal(w, ScenarioFinal(workers[w].job))
    \/ ResultsGet

SpecScenario == InitScenario /\ [][NextScenario]_vars

\* the export of one month, alone
InitExport ==
    /\ fixture \in Fixtures
    /\ expected_count \in JobCounts
    /\ search_after = NoCursor
    /\ timeout_count = 0
    /\ failure_count = 0
    /\ query_finished = FALSE
    /\ raised = "none"
    /\ hits = << >>
    /\ response = << >>
    /\ requests = 0
    /\ sleeps = 0
    /\ yielded = << >>
    /\ results_count = 0
    /\ current_file_index = 0
    /\ json_file_path = << >>
    /\ files = << >>
    /\ csv_rows = << >>
    /\ wpc = "start"
    /\ final_event = NoEvent
    /\ json_written = << >>
    /\ streams_opened = 1
    /\ prior_retried = FALSE
    /\ Thresholds
    /\ today = Months[1]
    /\ buckets = << >>
    /\ InitRun

NextExport ==
    \/ OpenFiles
    \/ return_all_results
    \/ QueryExtra
    \/ PullRecord
    \/ ReportFinal
    \/ StreamRaised
    \/ \E directory \in Directories, count \in JobCounts : NextJob(directory, count)

SpecExport == InitExport /\ [][NextExport]_vars

----------------------------------------------------------------------------
(* Claims about the export of one month, checked under SpecExport          *)

\* C1 (as claimed): against a backend whose every response is timed out the
\* stream makes exactly 11 requests, yields nothing and raises
\* TooManyTimeouts: never a 12th request, never another exception.
C1_TimeoutRetryBound ==
    fixture.mode = "always_timeout" =>
        /\ requests <= MaxRetries + 1
        /\ yielded = << >>
        /\ raised \in {"none", "TooManyTimeouts"}
        /\ (raised # "none" => requests = MaxRetries + 1)

\* the n records of the fixture, all findable
AllFindable == \A i \in 1..fixture.n : fixture.states[i] = "findable"

\* C2 (as claimed): a completed job of n findable records leaves
\* floor(n/T)+1 sequence files part_0000.., file i holding the records
\* i*T+1 .. (i+1)*T and the last one n mod T records.
C2_Rotation ==
    (wpc = "reported" /\ AllFindable) =>
        /\ DOMAIN files = {PartPath(i) : i \in 0..(fixture.n \div RotateEvery)}
        /\ \A i \in 0..(fixture.n \div RotateEvery) :
              files[PartPath(i)] =
                [j \in 1..Min(RotateEvery, fixture.n - i * RotateEvery) |-> i * RotateEvery + j]

\* C8: on the happy path the stream yields the n records of the backend,
\* each once, in sort order, and then ends; whatever the page size.
C8_Resumption ==
    fixture.mode = "happy" =>
        /\ Len(yielded) + Len(hits) <= fixture.n
        /\ yielded \o [j \in 1..Len(hits) |-> hits[j].uid]
             = [i \in 1..(Len(yielded) + Len(hits)) |-> i]
        /\ (query_finished => (Len(yielded) = fixture.n /\ hits = << >>))

\* C8 witness: 10 records in pages of 3, all yielded, stream ended
C8_Witness ==
    /\ fixture.mode = "happy" /\ fixture.n = 10 /\ fixture.page = 3
    /\ query_finished /\ Len(yielded) = 10 /\ requests = 5

----------------------------------------------------------------------------
(* Claims about the run                                                    *)

Range(seq) == {seq[i] : i \in DOMAIN seq}

\* every bucket of res has an expected and a final count
AllReconciled(res) ==
    \A i \in DOMAIN res : {"expected", "final"} \subseteq DOMAIN res[i].value

\* C3 (as claimed): over a whole run the Reconciler decides shutdown once,
\* so it puts worker_count sentinels in all, and at that decision every
\* bucket it tracks has an expected and a final count.
C3_ShutdownOnce ==
    /\ sentinels_put <= WorkerCount
    /\ (last_round.decision = "shutdown" => AllReconciled(last_round.results))
    /\ (rpc = "sentinels" => AllReconciled(results))

NoJobQueued == \A i \in DOMAIN work_queue : work_queue[i] = Sentinel

PoolExited == \A w \in DOMAIN workers : ~Alive(w)

\* C4 (as claimed): once a sentinel is on the Job Queue no Job is put on it
\* any more, and no Job is left on the queue when the pool has exited.
C4_NoJobAfterSentinel ==
    [][ /\ (sentinels_put > 0 => jobs_put' = jobs_put)
        /\ (PoolExited' => NoJobQueued') ]_vars

\* C5 (as claimed): a Final event received before the bucket's Expected
\* event does not make the Reconciler fail: the final count is recorded and
\* the thread lives on to receive the Expected event.
C5_OutOfOrder ==
    \A i \in DOMAIN results :
        ("final" \in DOMAIN results[i].value /\ "expected" \notin DOMAIN results[i].value)
            => rpc \notin {"KeyError", "TypeError"}

\* C6: in every state of the run every bucket that has an expected and a
\* final count has diff = expected - final, and pct = 0 when expected = 0,
\* else 100*diff/expected; after every sequence of Expected and Final events
\* the run produces for the bucket, those of its regenerations included.
C6_Reconciliation ==
    \A i \in DOMAIN results :
        LET v == results[i].value IN
        ({"expected", "final"} \subseteq DOMAIN v /\ v["expected"] # None) =>
            /\ {"diff", "pct"} \subseteq DOMAIN v
            /\ v["diff"] = v["expected"] - v["final"]
            /\ v["pct"] = IF v["expected"] = 0 THEN <<0, 1>>
                          ELSE <<100 * v["diff"], v["expected"]>>

\* C6 witness: a bucket that was regenerated, with the expected and the
\* final count of its second export, which delivered nothing of the
\* records expected
C6_Witness ==
    \E i \in DOMAIN results :
        /\ results[i].key \in Range(regenerated)
        /\ {"expected", "final", "diff", "pct"} \subseteq DOMAIN results[i].value
        /\ results[i].value["expected"] = MaxCount * CountStep
        /\ results[i].value["final"] = 0
        /\ results[i].value["pct"] = <<100 * MaxCount * CountStep, MaxCount * CountStep>>

\* C7 (as claimed): in a round where every tracked bucket is reconciled a
\* bucket is selected for regeneration iff its diff exceeds MONTH_THRESHOLD.
C7_SelectionByMonthOnly ==
    last_round.n > 0 =>
        \A i \in DOMAIN last_round.results :
            (last_round.results[i].key \in Range(last_round.rerun))
                <=> (last_round.results[i].value["diff"] > MONTH_THRESHOLD.int)

\* the sum of the diffs of a round, the current month's key left out
RECURSIVE RoundTotal(_)
RoundTotal(res) ==
    IF res = << >> THEN 0
    ELSE (IF Head(res).key = Str(today.year) \o <<"-">> \o Pad2(today.month)
            THEN 0 ELSE Head(res).value["diff"])
         + RoundTotal(Tail(res))

\* C7 (amended): in such a round a bucket is selected iff its diff exceeds
\* MONTH_THRESHOLD and the round's total discrepancy exceeds
\* TOTAL_THRESHOLD; the other buckets count only through that total.
C7_Selection ==
    last_round.n > 0 =>
        /\ AllReconciled(last_round.results)
        /\ \A i \in DOMAIN last_round.results :
             (last_round.results[i].key \in Range(last_round.rerun))
                <=> /\ last_round.results[i].value["diff"] > MONTH_THRESHOLD.int
                    /\ RoundTotal(last_round.results) > TOTAL_THRESHOLD.int

\* C7 witness: a round of two buckets that selects one and not the other
C7_Witness ==
    /\ last_round.decision = "regenerate"
    /\ Len(last_round.results) = 2
    /\ Len(last_round.rerun) = 1

\* C9 (as claimed): in the scenario results_thread compares the discrepancy
\* with the two thresholds and decides: the only regeneration round finds a
\* total discrepancy of 60 and selects 2024-02 alone, once; the shutdown
\* round finds 0 after that regeneration, and puts one sentinel per worker.
C9_Scenario ==
    /\ rpc # "TypeError"
    /\ regenerated \in {<< >>, <<ResultKey(2024, 2)>>}
    /\ (last_round.decision = "regenerate" =>
            /\ last_round.discrepancy = 60
            /\ last_round.rerun = <<ResultKey(2024, 2)>>)
    /\ (last_round.decision = "shutdown" =>
            /\ last_round.discrepancy = 0
            /\ regenerated = <<ResultKey(2024, 2)>>
            /\ Len(last_round.results) = 2)
    /\ sentinels_put <= WorkerCount

\* the jobs with this id waiting on the Job Queue
Queued(id) == {i \in DOMAIN work_queue : work_queue[i] # Sentinel /\ work_queue[i].id = id}

\* C10: every job put on the Job Queue is either still on it, once, and
\* taken by nobody, or off it and dequeued once by one worker; and at most
\* one Final event is put for it, by the worker that dequeued it.
C10_JobDelivery ==
    \A id \in 1..jobs_put :
        /\ Cardinality(Queued(id)) + Len(takes[id]) = 1
        /\ finals_put[id] <= Len(takes[id])
        /\ \A w \in DOMAIN workers :
             (workers[w].pc = "job" /\ workers[w].job.id = id) =>
                 (takes[id] = <<w>> /\ finals_put[id] = 0)

\* C10 witness: both workers hold a job at once, after a job was completed
C10_Witness ==
    /\ \A w \in DOMAIN workers : workers[w].pc = "job"
    /\ \E id \in 1..jobs_put : finals_put[id] = 1

----------------------------------------------------------------------------
(* Claims about worker failure, checked under Spec                         *)

Crashed(w) == workers[w].pc = "FatalWorkerError"

\* the bucket of a job has an expected and a final count in res
Reconciled(res, job) ==
    \E i \in DOMAIN res :
        /\ res[i].key = Str(job.year) \o <<"-">> \o Str(job.month)
        /\ {"expected", "final"} \subseteq DOMAIN res[i].value

\* C11 (as claimed): a worker that failed on a job stays terminated; its job
\* gets no Final event and is neither put back on the Job Queue nor taken
\* again; and from then on the job's bucket is never Reconciled, no
\* completeness check succeeds and no sentinel is put on the Job Queue.
C11_WorkerFailure ==
    [][ \A w \in DOMAIN workers : Crashed(w) =>
            /\ Crashed(w)'
            /\ finals_put'[workers[w].job.id] = 0
            /\ takes'[workers[w].job.id] = <<w>>
            /\ Queued(workers[w].job.id)' = {}
            /\ ~Reconciled(results', workers[w].job)
            /\ last_round' = last_round
            /\ sentinels_put' = sentinels_put ]_vars

----------------------------------------------------------------------------
(* More claims about the export of one month, checked under SpecExport     *)

\* C12: every record pulled gives one row of the tabular file and one more
\* in the running count, whatever its state; it is written to the sequence
\* file iff it is findable; and the Final event carries the number of
\* records pulled, which is the number of tabular data rows. (Before the
\* export opens its files, the tabular file of the bucket holds what the
\* last export of the bucket left.)
C12_PerRecord ==
    /\ results_count = Len(yielded)
    /\ wpc # "start" =>
          /\ Len(csv_rows) = Len(yielded)
          /\ \A i \in DOMAIN csv_rows :
                csv_rows[i] = [doi |-> yielded[i], state |-> fixture.states[yielded[i]]]
    /\ json_written = SelectSeq(yielded, LAMBDA u : fixture.states[u] = "findable")
    /\ (final_event # NoEvent =>
          /\ query_finished
          /\ final_event.count = Len(yielded)
          /\ final_event.count = Len(csv_rows))

\* C12 witness: a job of 10 records, some of them not findable, reported
C12_Witness ==
    /\ wpc = "reported" /\ final_event.count = MaxRecords
    /\ Len(csv_rows) = MaxRecords
    /\ Len(json_written) > 0 /\ Len(json_written) < MaxRecords

\* the exceptions the backend raised in this stream: failure_count counts
\* them, and also every timed out response after the MaxRetries-th
BackendFailures ==
    failure_count - (IF timeout_count > MaxRetries THEN timeout_count - MaxRetries ELSE 0)

\* C13 (as claimed): against a backend that raises on every request the
\* stream makes exactly 11 requests, sleeping after each of the first 10,
\* yields nothing and raises TooManyFailures; and no stream raises
\* TooManyFailures on fewer than 11 failures of the backend.
C13_FailureRetryBound ==
    /\ fixture.mode = "always_raise" =>
          /\ requests <= MaxRetries + 1
          /\ sleeps = Min(requests, MaxRetries)
          /\ yielded = << >>
          /\ raised \in {"none", "TooManyFailures"}
          /\ (raised = "TooManyFailures" <=> requests = MaxRetries + 1)
    /\ raised = "TooManyFailures" => BackendFailures >= MaxRetries + 1

NoDuplicates(seq) == \A i, j \in DOMAIN seq : i # j => seq[i] # seq[j]

\* a step of return_all_results: one request to the backend
Request == requests' = requests + 1

\* the response to the request of this step was timed out, or the request
\* raised: one of the two counters moved
RetriedRequest == timeout_count' # timeout_count \/ failure_count' # failure_count

\* C14: a request leaves the cursor alone, whether it times out, raises or
\* is answered, and a page it is answered with is the page after the cursor,
\* so a retry asks for the same page; within a stream the cursor changes
\* only when the stream is resumed after the last record of a page with
\* records, to the sort key of that record, and no counter moves in that
\* step; and no record is delivered twice, retries or not.
C14_CursorFrame ==
    [][ /\ Request =>
              /\ search_after' = search_after
              /\ hits' # << >> => hits' = Page(search_after)
        /\ (search_after' # search_after /\ streams_opened' = streams_opened) =>
              /\ ~Request
              /\ hits = << >> /\ response # << >>
              /\ yielded # << >> /\ yielded[Len(yielded)] = response[Len(response)].uid
              /\ search_after' = <<response[Len(response)].updated,
                                   response[Len(response)].uid>>
              /\ timeout_count' = timeout_count
              /\ failure_count' = failure_count
        /\ NoDuplicates(yielded' \o [j \in 1..Len(hits') |-> hits'[j].uid]) ]_vars

\* C14 witness: 10 records in pages of 3, delivered through timeouts and
\* exceptions
C14_Witness ==
    /\ fixture.n = 10 /\ fixture.page = 3
    /\ timeout_count > 0 /\ failure_count > 0
    /\ query_finished /\ Len(yielded) = 10

\* C15: the two counters are 0 when a stream has made no request; within a
\* stream they never decrease and a successful page leaves them as they
\* are; the stream has raised exactly when failure_count, a total, is over
\* MaxRetries, and every timed out response after the MaxRetries-th in
\* total takes the escalation path.
C15_CumulativeCounters ==
    [][ /\ (requests' = 0 => (timeout_count' = 0 /\ failure_count' = 0))
        /\ (streams_opened' = streams_opened =>
              (timeout_count' >= timeout_count /\ failure_count' >= failure_count))
        /\ ((requests' = requests + 1 /\ (hits' # hits \/ query_finished' # query_finished)) =>
              (timeout_count' = timeout_count /\ failure_count' = failure_count))
        /\ (raised' # "none" <=> failure_count' > MaxRetries)
        /\ (timeout_count' > MaxRetries => failure_count' >= timeout_count' - MaxRetries) ]_vars

\* C15 witness: the second stream of a worker whose first stream retried:
\* it has just received a full page, after others, with failure_count at
\* MaxRetries and timeouts counted too
C15_Witness ==
    /\ streams_opened = 2 /\ prior_retried
    /\ yielded # << >> /\ Len(hits) = fixture.page
    /\ failure_count = MaxRetries /\ timeout_count > 0 /\ raised = "none"

----------------------------------------------------------------------------
(* Claims about the rounds of results_thread, checked under SpecReconciler *)

\* the bucket of the current calendar month
IsCurrentMonth(key) ==
    LET dash == CHOOSE i \in 1..Len(key) : key[i] = "-"
    IN  /\ ParseInt(SubSeq(key, 1, dash - 1)) = today.year
        /\ ParseInt(SubSeq(key, dash + 1, Len(key))) = today.month

\* total_discrepancy: the sum of diff over the buckets of res other than
\* the bucket of the current calendar month
RECURSIVE CalendarTotal(_)
CalendarTotal(res) ==
    IF res = << >> THEN 0
    ELSE (IF IsCurrentMonth(Head(res).key) THEN 0 ELSE Head(res).value["diff"])
         + CalendarTotal(Tail(res))

NoneAboveMonth(res) == \A i \in DOMAIN res : res[i].value["diff"] <= MONTH_THRESHOLD.int

\* a step of results_thread that received a Final event and found every
\* tracked bucket with a final count
CompletenessCheck ==
    /\ rpc = "get" /\ results_queue # << >>
    /\ Len(results_queue') < Len(results_queue)
    /\ "status" \in DOMAIN Head(results_queue) /\ Head(results_queue).status = "final"
    /\ rpc' \notin {"KeyError", "TypeError"}
    /\ \A i \in DOMAIN results' : "final" \in DOMAIN results'[i].value

\* C16 (as claimed): a completeness check either decides shutdown, which it
\* does iff total_discrepancy <= TOTAL_THRESHOLD or no bucket has
\* diff > MONTH_THRESHOLD, and then worker_count sentinels are put and no
\* bucket state changes; or it regenerates at least one bucket, and then no
\* sentinel is put.
C16_RoundDecision ==
    [][ /\ CompletenessCheck =>
              /\ last_round'.n = last_round.n + 1
              /\ last_round'.results = results'
              /\ last_round'.decision \in {"shutdown", "regenerate"}
              /\ (last_round'.decision = "shutdown") <=>
                    (CalendarTotal(results') <= TOTAL_THRESHOLD.int \/ NoneAboveMonth(results'))
              /\ (last_round'.decision = "shutdown") =>
                    (rpc' = "sentinels" /\ sentinels_left' = WorkerCount)
              /\ (last_round'.decision = "regenerate") =>
                    (rpc' = "regen_del" /\ Len(months_to_rerun') >= 1)
        /\ (sentinels_put' # sentinels_put) =>
              /\ last_round.decision = "shutdown"
              /\ results' = last_round.results
              /\ sentinels_put' = sentinels_put + 1
        /\ (rpc = "sentinels" /\ rpc' # "sentinels") => sentinels_put' % WorkerCount = 0
        /\ (rpc \in {"regen_del", "regen_job", "regen_expected"}) =>
              sentinels_put' = sentinels_put ]_vars

\* C17 (as claimed): the total discrepancy of a round is the sum of diff
\* over the tracked buckets other than the bucket of the current calendar
\* month; so a round in which no other bucket has a diff above 0 decides
\* shutdown.
C17_CurrentMonthExcluded ==
    last_round.n > 0 =>
        /\ last_round.discrepancy = CalendarTotal(last_round.results)
        /\ (\A i \in DOMAIN last_round.results :
                (~IsCurrentMonth(last_round.results[i].key)
                    => last_round.results[i].value["diff"] <= 0))
              => last_round.decision = "shutdown"

\* C18: regenerating a selected bucket removes its whole state and leaves
\* every other bucket as it is, puts one Job for it and then one Expected
\* event for it; nothing else puts a Job or an Expected event; and at the
\* end of the round the state is the round's state without the selected
\* buckets, with one Job and one Expected event per selected bucket.
C18_RegenerationEffect ==
    [][ /\ (rpc = "regen_del" /\ rpc' # rpc) =>
              LET key == Head(months_to_rerun) IN
              /\ key \in Range(last_round.rerun) /\ key \in Keys(results)
              /\ results' = SelectSeq(results, LAMBDA e : e.key # key)
              /\ work_queue' = work_queue /\ results_queue' = results_queue
              /\ months_to_rerun' = months_to_rerun
        /\ (rpc = "regen_job" /\ rpc' # rpc) =>
              LET key == Head(months_to_rerun) IN
              /\ key \notin Keys(results) /\ results' = results
              /\ Len(work_queue') = Len(work_queue) + 1
              /\ SubSeq(work_queue', 1, Len(work_queue)) = work_queue
              /\ work_queue'[Len(work_queue')] # Sentinel
              /\ Str(work_queue'[Len(work_queue')].year) \o <<"-">>
                    \o Str(work_queue'[Len(work_queue')].month) = key
              /\ results_queue' = results_queue
        /\ (rpc = "regen_expected" /\ rpc' # rpc) =>
              LET key == Head(months_to_rerun) IN
              /\ results' = results /\ work_queue' = work_queue
              /\ Len(results_queue') = Len(results_queue) + 1
              /\ SubSeq(results_queue', 1, Len(results_queue)) = results_queue
              /\ results_queue'[Len(results_queue')].status = "expected"
              /\ Str(results_queue'[Len(results_queue')].year) \o <<"-">>
                    \o Str(results_queue'[Len(results_queue')].month) = key
        /\ (rpc \notin {"regen_job", "regen_expected"}) =>
              (jobs_put' = jobs_put /\ Len(results_queue') <= Len(results_queue))
        /\ (rpc = "regen_expected" /\ rpc' = "get") =>
              /\ results' = SelectSeq(last_round.results,
                                      LAMBDA e : e.key \notin Range(last_round.rerun))
              /\ LET n == Len(last_round.rerun)
                     jobs == SubSeq(work_queue', Len(work_queue') - n + 1, Len(work_queue'))
                     events == SubSeq(results_queue', Len(results_queue') - n + 1,
                                      Len(results_queue'))
                 IN /\ [i \in 1..n |-> Str(jobs[i].year) \o <<"-">> \o Str(jobs[i].month)]
                         = last_round.rerun
                    /\ [i \in 1..n |-> Str(events[i].year) \o <<"-">> \o Str(events[i].month)]
                         = last_round.rerun
                    /\ \A i \in 1..n : events[i].status = "expected" ]_vars

\* C18 witness: a round of two buckets that regenerated one has ended: the
\* other bucket is still tracked, reconciled
C18_Witness ==
    /\ last_round.decision = "regenerate" /\ rpc = "get"
    /\ Len(last_round.results) = 2 /\ Len(last_round.rerun) = 1
    /\ Len(results) = 1 /\ AllReconciled(results)
    /\ jobs_put = 1

\* C19 (as claimed): every Job the Reconciler puts for a regenerated bucket
\* has a null count.
C19_NullCount ==
    \A i \in DOMAIN work_queue :
        work_queue[i] # Sentinel => work_queue[i].count = None

\* C19 (amended): the Job of a regenerated bucket carries the count that
\* queue_month has just asked the backend for, in the thread of the
\* Reconciler (null only if that query failed), and the Expected event that
\* follows it carries the same count.
C19_RequeriedCount ==
    [][ /\ (rpc = "regen_job" /\ rpc' # rpc) =>
              /\ rcount' \in Recounts
              /\ work_queue'[Len(work_queue')].count = rcount'
              /\ results_queue' = results_queue
        /\ (rpc = "regen_expected" /\ rpc' # rpc) =>
              /\ rcount' = rcount
              /\ work_queue' = work_queue
              /\ work_queue[Len(work_queue)].count = rcount
              /\ results_queue'[Len(results_queue')].status = "expected"
              /\ results_queue'[Len(results_queue')].count = rcount ]_vars

\* C19 witness: the Job of a regenerated bucket is on the queue with the
\* count the backend gave, its Expected event not yet put
C19_Witness ==
    /\ rpc = "regen_expected" /\ rcount = MaxCount * CountStep
    /\ work_queue # << >> /\ work_queue[Len(work_queue)].count = MaxCount * CountStep

----------------------------------------------------------------------------
(* Claims about the rounds of a run without worker failure, under SpecFair *)

\* every bucket regenerated so far has reported: it is tracked with a final
\* count and a diff within MONTH_THRESHOLD, and no regeneration is under way
RegeneratedWithinThreshold ==
    /\ regenerated # << >>
    /\ rpc \notin {"regen_del", "regen_job", "regen_expected"}
    /\ \A k \in Range(regenerated) :
          \E i \in DOMAIN results :
              /\ results[i].key = k
              /\ {"final", "diff"} \subseteq DOMAIN results[i].value
              /\ results[i].value["diff"] <= MONTH_THRESHOLD.int

\* the model's bound on regenerations keeps results_thread from the event
\* at the head of its queue
RegenBoundReached ==
    /\ rpc = "get" /\ results_queue # << >> /\ Head(results_queue) # StopEvent
    /\ ~ENABLED ResultsGet

ShutdownComplete ==
    /\ sentinels_put >= WorkerCount
    /\ \A w \in DOMAIN workers : workers[w].pc = "stopped"

\* C20 (as claimed): when a round's regenerated buckets have all reported a
\* final count with diff <= MONTH_THRESHOLD and no worker fails, the
\* Reconciler eventually puts the sentinels and every worker eventually
\* terminates (as far as the model's bound on regenerations lets the run go).
C20_Convergence ==
    RegeneratedWithinThreshold ~> (ShutdownComplete \/ RegenBoundReached)

----------------------------------------------------------------------------
(* Claims about the end of the run, checked under Spec                     *)

\* results_thread is about to receive the None that the main thread put
\* after joining the workers
StopReceived ==
    rpc = "get" /\ results_queue # << >> /\ Head(results_queue) = StopEvent

\* C21 (as claimed): whenever results_thread receives the shutdown signal,
\* every bucket it tracks has expected, final, diff and pct, so the report
\* gets one complete line per bucket and the thread exits without error.
C21_CompleteReport ==
    [][ StopReceived =>
            /\ ReportComplete(results)
            /\ rpc' = "stopped" ]_vars

NoWorkerFailed == \A w \in DOMAIN workers : ~Crashed(w)

\* a step in which worker w dequeues the sentinel
TakesSentinel(w) ==
    /\ workers[w].pc = "get" /\ workers'[w].pc # "get"
    /\ work_queue # << >> /\ Head(work_queue) = Sentinel

\* C22 (as claimed): a worker that dequeues the sentinel stops, puts no
\* Outcome Event and puts nothing back on the Job Queue; a worker stops only
\* by dequeuing a sentinel, one; and in a run without worker failure, once
\* the workers have all terminated the Job Queue is empty.
C22_SentinelProtocol ==
    [][ /\ \A w \in DOMAIN workers :
              /\ TakesSentinel(w) =>
                    /\ workers'[w].pc = "stopped"
                    /\ results_queue' = results_queue
                    /\ work_queue' = Tail(work_queue)
              /\ (workers[w].pc # "stopped" /\ workers'[w].pc = "stopped") =>
                    (TakesSentinel(w) /\ Len(work_queue') = Len(work_queue) - 1)
              /\ workers[w].pc = "stopped" => workers'[w].pc = "stopped"
        /\ (NoWorkerFailed' /\ \A w \in DOMAIN workers : workers'[w].pc = "stopped")
              => work_queue' = << >> ]_vars

----------------------------------------------------------------------------
(* Claims about the end of a stream, checked under SpecExport              *)

\* C23: the stream ends normally exactly in the step of a request whose
\* response is not timed out and has no records: such a response ends it, a
\* response with records does not, and a timed out or failed request never
\* does; a stream that raised has not ended normally; the Final event is put
\* only after the normal end; and the job of a bucket without records is
\* reported with count 0, nothing yielded, whatever its expected count.
C23_StreamTermination ==
    [][ /\ (query_finished' /\ ~query_finished) =>
              /\ Request /\ ~RetriedRequest
              /\ Page(search_after) = << >>
              /\ hits' = << >> /\ raised' = "none"
        /\ (Request /\ ~RetriedRequest) =>
              (query_finished' <=> Page(search_after) = << >>)
        /\ (Request /\ RetriedRequest) => (~query_finished' /\ hits' = << >>)
        /\ raised' # "none" => ~query_finished'
        /\ final_event' # NoEvent => (query_finished' /\ raised' = "none")
        /\ (fixture.n = 0 /\ final_event' # NoEvent) =>
              (final_event'.count = 0 /\ yielded' = << >> /\ csv_rows' = << >>)
        /\ (fixture.n = 0 /\ wpc' = "FatalWorkerError") => raised' # "none" ]_vars

\* C23 witness: the job of a bucket without records, its expected count
\* null, reported with count 0 after a timed out request and a failed one
C23_Witness ==
    /\ fixture.n = 0 /\ expected_count = None
    /\ wpc = "reported" /\ final_event.count = 0
    /\ timeout_count > 0 /\ failure_count > 0 /\ yielded = << >>

----------------------------------------------------------------------------
(* Claims about duplicate events, checked under SpecReconciler             *)

\* the key under which results_thread tracks the bucket of an event
EventKey(event) == Str(event.year) \o <<"-">> \o Str(event.month)

\* results_thread is about to receive a bucket event for a bucket that
\* already has a count under the event's phase
DuplicateAtHead ==
    /\ rpc = "get" /\ results_queue # << >> /\ Head(results_queue) # StopEvent
    /\ \E i \in DOMAIN results :
          /\ results[i].key = EventKey(Head(results_queue))
          /\ Head(results_queue).status \in DOMAIN results[i].value

\* C24: receiving a duplicate event does not end results_thread; the bucket
\* stays tracked, at its place, with the new count under the event's phase
\* and its count under the other phase as it was (and, for a Final event,
\* diff recomputed from the new count); no other bucket changes.
C24_DuplicateNonFatal ==
    [][ (DuplicateAtHead /\ results_queue' # results_queue) =>
            LET event == Head(results_queue)
                other == IF event.status = "final" THEN "expected" ELSE "final"
            IN  /\ rpc' \in {"get", "regen_del", "sentinels"}
                /\ results_queue' = Tail(results_queue)
                /\ Len(results') = Len(results)
                /\ \A i \in DOMAIN results :
                      IF results[i].key # EventKey(event)
                        THEN results'[i] = results[i]
                        ELSE /\ results'[i].key = results[i].key
                             /\ results'[i].value[event.status] = event.count
                             /\ other \in DOMAIN results[i].value =>
                                   results'[i].value[other] = results[i].value[other]
                             /\ event.status = "final" =>
                                   results'[i].value["diff"]
                                      = results[i].value["expected"] - event.count ]_vars

\* C24 witness: a second round was decided on a single bucket that was
\* never regenerated: a second Final event for it was received after the
\* first round, and results_thread went on to decide on it
C24_Witness ==
    /\ last_round.n = 2 /\ regenerated = << >>
    /\ Len(last_round.results) = 1
    /\ rpc = "sentinels"

----------------------------------------------------------------------------
(* Claims about the job's expected count, checked under SpecExport         *)

\* C25 (as claimed): the job's expected count only decides what is logged:
\* whatever it is, null included, the worker fails on a job only when the
\* stream raised, and a stream that ended normally is reported with a Final
\* event before the worker goes on to its next job.
C25_CountObservational ==
    /\ wpc = "FatalWorkerError" => raised # "none"
    /\ (query_finished /\ raised = "none" /\ hits = << >>) =>
          wpc \in {"loop", "reported"}

\* C27 (as claimed): a timed out response increments timeout_count alone
\* and a raised exception failure_count alone; the stream raises
\* TooManyTimeouts when the timeouts are the ones over MaxRetries, and
\* TooManyFailures only when the failures of the backend are.
C27_IndependentBudgets ==
    [][ Request =>
          /\ timeout_count' # timeout_count => failure_count' = failure_count
          /\ failure_count' # failure_count => timeout_count' = timeout_count
          /\ timeout_count' > MaxRetries => raised' = "TooManyTimeouts"
          /\ raised' = "TooManyFailures" => timeout_count' <= MaxRetries ]_vars

----------------------------------------------------------------------------
(* Claims about the moment of shutdown, checked under Spec                 *)

\* a job is waiting on the Job Queue, or a worker is exporting one
WorkInFlight ==
    \/ \E i \in DOMAIN work_queue : work_queue[i] # Sentinel
    \/ \E w \in DOMAIN workers : workers[w].pc = "job"

\* C26 (as claimed): when results_thread puts the sentinels no Job is
\* waiting on the Job Queue and no worker is in the middle of a job.
C26_NoShutdownInFlight ==
    rpc = "sentinels" => ~WorkInFlight


\* the orchestrator seeded no bucket: the histogram was empty, or its query
\* raised (main.py:251), and the seeding loop is over
ZeroSeeded == buckets = << >> /\ jobs_put = 0

\* C28: only the step that receives a Final event decides shutdown; and in
\* a run that seeded no bucket results_thread receives nothing and decides
\* no round, no sentinel is put, every worker waits on the Job Queue and
\* the main thread stays in the join of the workers.
C28_ShutdownNeedsFinal ==
    /\ [](ZeroSeeded =>
            /\ mpc = "seed" /\ rpc = "get"
            /\ work_queue = << >> /\ results_queue = << >> /\ results = << >>
            /\ last_round.n = 0 /\ sentinels_put = 0
            /\ \A w \in DOMAIN workers : workers[w].pc = "get")
    /\ [][ (rpc # "sentinels" /\ rpc' = "sentinels") =>
              /\ results_queue # << >> /\ Head(results_queue) # StopEvent
              /\ Head(results_queue).status = "final" ]_vars

\* C28 witness: the run on an empty histogram: nothing can take a step
C28_Witness ==
    /\ ZeroSeeded
    /\ \A w \in DOMAIN workers : workers[w].pc = "get"
    /\ ~ENABLED Next

----------------------------------------------------------------------------
(* Claims about repeated regeneration, checked under SpecReconciler        *)

\* a round that ends with total_discrepancy, the sum of diff without the
\* bucket of the current calendar month, over TOTAL_THRESHOLD and with a
\* bucket over MONTH_THRESHOLD
OverThresholds(round) ==
    /\ CalendarTotal(round.results) > TOTAL_THRESHOLD.int
    /\ \E i \in DOMAIN round.results : round.results[i].value["diff"] > MONTH_THRESHOLD.int

\* C29 (as claimed): a round that ends with total_discrepancy over
\* TOTAL_THRESHOLD and a bucket over MONTH_THRESHOLD regenerates every such
\* bucket, however often it was regenerated before; and no sentinel is put
\* after such a round.
C29_UnboundedRegeneration ==
    [][ /\ (last_round'.n # last_round.n /\ OverThresholds(last_round')) =>
              /\ last_round'.decision = "regenerate"
              /\ rpc' = "regen_del"
              /\ months_to_rerun' = last_round'.rerun
              /\ \A i \in DOMAIN last_round'.results :
                    last_round'.results[i].value["diff"] > MONTH_THRESHOLD.int
                       => last_round'.results[i].key \in Range(months_to_rerun')
        /\ (rpc = "regen_job" /\ rpc' = "regen_expected") =>
              /\ regenerated' = Append(regenerated, Head(months_to_rerun))
              /\ jobs_put' = jobs_put + 1
        /\ sentinels_put' # sentinels_put =>
              (last_round.decision = "shutdown" /\ ~OverThresholds(last_round)) ]_vars

----------------------------------------------------------------------------
(* Claims about queue_month, checked under Spec                            *)

\* C30 (as claimed): the numbers of Jobs and of Expected events ever
\* enqueued are always equal, per bucket.
C30_AlwaysPaired ==
    \A i \in DOMAIN enqueued : enqueued[i].jobs = enqueued[i].expected

\* the calls of queue_month for a bucket that have put the Job and not yet
\* the Expected event
OpenCalls(year, month) ==
    LET ym == [year |-> year, month |-> month]
    IN  (IF mpc = "seed_expected" /\ SplitKey(Head(buckets).key_as_string) = ym
           THEN 1 ELSE 0)
        + (IF rpc = "regen_expected" /\ SplitKey(Head(months_to_rerun)) = ym
             THEN 1 ELSE 0)

\* a step that appends exactly x to queue
Puts(queue, after, x) == after = Append(queue, x)

\* C30 (amended): a call of queue_month puts one Job and then, in its next
\* step, one Expected event for the same bucket with the same count (the
\* count given if it is not 0, else the backend's answer, null if the query
\* failed); nothing else puts a Job or an Expected event; so per bucket the
\* number of Jobs is the number of Expected events plus the calls that are
\* between their two puts, at most one at a time.
C30_Pairing ==
    /\ [](\A i \in DOMAIN enqueued :
            /\ OpenCalls(enqueued[i].year, enqueued[i].month) <= 1
            /\ enqueued[i].jobs
                 = enqueued[i].expected + OpenCalls(enqueued[i].year, enqueued[i].month))
    /\ [][ /\ (mpc = "seed" /\ mpc' = "seed_expected") =>
                 LET ym == SplitKey(Head(buckets).key_as_string)
                     given == Head(buckets).doc_count
                 IN  /\ mcount' \in Recounts
                     /\ given # 0 => mcount' = given
                     /\ \E id \in 1..jobs_put' :
                           Puts(work_queue, work_queue',
                                [year |-> ym.year, month |-> ym.month, count |-> mcount', id |-> id])
                     /\ results_queue' = results_queue
           /\ (mpc = "seed_expected" /\ mpc' # mpc) =>
                 LET ym == SplitKey(Head(buckets).key_as_string)
                 IN  /\ Puts(results_queue, results_queue',
                             [year |-> ym.year, month |-> ym.month, count |-> mcount,
                              status |-> "expected"])
                     /\ work_queue' = work_queue
           /\ (rpc = "regen_job" /\ rpc' = "regen_expected") =>
                 LET ym == SplitKey(Head(months_to_rerun))
                 IN  /\ rcount' \in Recounts
                     /\ \E id \in 1..jobs_put' :
                           Puts(work_queue, work_queue',
                                [year |-> ym.year, month |-> ym.month, count |-> rcount', id |-> id])
                     /\ results_queue' = results_queue
           /\ (rpc = "regen_expected" /\ rpc' # rpc) =>
                 LET ym == SplitKey(Head(months_to_rerun))
                 IN  /\ Puts(results_queue, results_queue',
                             [year |-> ym.year, month |-> ym.month, count |-> rcount,
                              status |-> "expected"])
                     /\ work_queue' = work_queue
           /\ (jobs_put' # jobs_put \/ enqueued' # enqueued) =>
                 \/ mpc \in {"seed", "seed_expected"} /\ mpc' # mpc
                 \/ rpc \in {"regen_job", "regen_expected"} /\ rpc' # rpc ]_vars

\* C30 witness: a bucket was queued twice, by the seeding and by a
\* regeneration; the count query of a call failed, and its Job, held by a
\* worker, and its Expected event, received, both carry the null count
C30_Witness ==
    /\ \E i \in DOMAIN enqueued : enqueued[i].jobs = 2 /\ enqueued[i].expected = 2
    /\ \E w \in DOMAIN workers :
          /\ workers[w].pc = "job" /\ workers[w].job.count = None
          /\ \E j \in DOMAIN results :
                /\ results[j].key = Str(workers[w].job.year) \o <<"-">> \o Str(workers[w].job.month)
                /\ DOMAIN results[j].value = {"expected"}
                /\ results[j].value["expected"] = None

====
